---- MODULE Spec2Model ----
(***************************************************************************)
(* Heap-object representation of the slox VM.                              *)
(*                                                                         *)
(* Two sources are modelled.                                               *)
(*   Notes/StrAndObj.c : the C sketch (buf, Obj, Str, arr_len, Str_make,   *)
(*     Str_print, main).  Specification Spec.                              *)
(*   Sources/loxvm-object/include/loxvm-object.h : the layout of Object    *)
(*     and ObjectString (kind, next, length, hash, chars).  The allocator  *)
(*     that fills these structs is not part of the C sources; it is        *)
(*     modelled from the design document.  Specification SpecObj.          *)
(*                                                                         *)
(* Addresses are positive integers.  calloc is modelled as always          *)
(* succeeding and returning the lowest address never handed out before;    *)
(* nothing in the C sources frees memory.                                  *)
(***************************************************************************)
EXTENDS Integers, Sequences, FiniteSets, TLC

\* ------------------------------------------------------------------ bounds
\* Longest byte sequence given to main as a literal (terminator not counted).
MaxLen == 2
\* Number of calloc calls in a run.
MaxAllocs == 3
\* Number of ObjectStrings alive at once.
MaxObjs == 2

\* ------------------------------------------------------------- constants
\* 0x00, and 0x48 (the first byte of main's literal).
Byte == {0, 72}
\* loxvm-object.h: ObjectKindString = 1; Str_make stores the same literal 1.
ObjectKindString == 1
\* Tags an object that is not a string may carry: 0 (what calloc leaves) and
\* 2 (a variant added later).
OtherKinds == {0, 2}
\* The null pointer of `struct _Object * _Nullable next`.
NULL == 0

VARIABLES
    mem,      \* address -> bytes of a payload block (calloc at main:54)
    strs,     \* address -> Str struct (calloc at Str_make:34)
    frames,   \* locals of the callers that prepared a buffer: bytes, buffer
    made,     \* per Str_make call, in order: the argument and the pointer returned
    call,     \* what the most recent call did: op, arg, kind, ret, reads, printed, view
    heap,     \* address -> ObjectString (loxvm-object.h)
    objects,  \* the memory manager's root: the most recently linked Object, or NULL
    gc        \* the most recent operation of the memory manager

notesVars == <<mem, strs, frames, made, call>>
objVars == <<heap, objects, gc>>
vars == <<mem, strs, frames, made, call, heap, objects, gc>>

\* ------------------------------------------------------------- helpers
SeqsUpTo(S, n) == UNION {[1..k -> S] : k \in 0..n}

\* A byte array literal as in main:51: some bytes followed by 0x00.
ByteArrays == {b \o <<0>> : b \in SeqsUpTo(Byte, MaxLen)}

\* The bytes of an array literal before its final 0x00.
Content(bytes) == SubSeq(bytes, 1, Len(bytes) - 1)

HasZero(b) == \E i \in 1..Len(b) : b[i] = 0

\* arr_len: counts bytes up to the first 0x00.  (Reading past the end of an
\* array with no 0x00 is undefined; every array given to it here has one.)
RECURSIVE arr_len_from(_, _)
arr_len_from(arr, count) ==
    IF count < Len(arr) /\ arr[count + 1] # 0
    THEN arr_len_from(arr, count + 1)
    ELSE count

arr_len(arr) == arr_len_from(arr, 0)

\* Number of allocations so far, and the address of the next one.
Allocated == Cardinality(DOMAIN mem) + Cardinality(DOMAIN strs)

\* Mutant: the allocator hands out a payload block that is still in use.
NewAddrReused ==
    IF DOMAIN mem = {} THEN Allocated + 1
    ELSE CHOOSE p \in DOMAIN mem : \A q \in DOMAIN mem : p <= q

\* Mutant: the allocator forgets the Str structs it handed out.
NewAddrIgnoringStrs == Cardinality(DOMAIN mem) + 1

NewAddr == Allocated + 1

\* calloc(n, 1): a block of n zero bytes.
calloc(n) == [i \in 1..n |-> 0]

\* Mutant: no room for the terminator.
PayloadSizeNoNul(len) == len

\* main:54: the payload block has room for the bytes and a terminator.
PayloadSize(len) == len + 1

\* Mutant: one byte short.
memcpy_short(dst, src, n) ==
    [i \in 1..Len(dst) |-> IF i <= n - 1 THEN src[i] ELSE dst[i]]

\* memcpy(dst, src, n): the first n bytes of dst replaced by those of src.
memcpy(dst, src, n) == [i \in 1..Len(dst) |-> IF i <= n THEN src[i] ELSE dst[i]]

\* Mutant: the tag is left as calloc zeroed it.
Str_make_untagged(buffer) == [obj |-> [kind |-> 0], chars |-> buffer]

\* Str_make: *s = (Str){ 1, buffer } -- the buf is stored as given, the
\* payload pointer included (no copy of the bytes).
Str_make(buffer) == [obj |-> [kind |-> 1], chars |-> buffer]

IS_STR(o) == o.obj.kind = 1

\* printf("%s", p): the bytes at p up to the first 0x00.
CString(arr) == SubSeq(arr, 1, arr_len(arr))

\* No variant-specific view was taken.
NoView == [len |-> -1, payload |-> 0]

\* What lies past the header of an object that is not a Str.
Garbage == [len |-> 0, payload |-> 0]

\* Mutant: no tag check, the chars field is read whatever the object is.
Str_print_unchecked(o) ==
    [reads   |-> {"chars.payload"},
     printed |-> IF "chars" \in DOMAIN o THEN CString(mem[o.chars.payload]) ELSE <<>>,
     view    |-> IF "chars" \in DOMAIN o THEN o.chars ELSE Garbage,
     ret     |-> "void"]

\* Mutant: the tag check is inverted.
Str_print_inverted(o) ==
    IF IS_STR(o)
    THEN [reads |-> {"obj.kind"}, printed |-> <<>>, view |-> NoView, ret |-> "void"]
    ELSE [reads |-> {"obj.kind", "chars.payload"}, printed |-> <<>>,
          view |-> Garbage, ret |-> "void"]

\* Str_print on the struct s points to: what it reads, writes and returns.
Str_print(o) ==
    IF ~IS_STR(o)
    THEN [reads |-> {"obj.kind"}, printed |-> <<>>, view |-> NoView, ret |-> "void"]
    ELSE [reads   |-> {"obj.kind", "chars.payload"},
          printed |-> CString(mem[o.chars.payload]),
          view    |-> o.chars,
          ret     |-> "void"]

\* The first len bytes of a string object's payload.
chars(s) == SubSeq(mem[s.chars.payload], 1, s.chars.len)

\* Buffers prepared the way main prepares one.
MainBuffers == {f.buffer : f \in frames}

\* Any buf value a caller can hand to Str_make: a length and a pointer to a block.
BufValues == {[len |-> l, payload |-> p] : l \in 0..MaxLen, p \in DOMAIN mem}

NoCall == [op |-> "none", arg |-> 0, kind |-> 0, ret |-> "void",
           reads |-> {}, printed |-> <<>>, view |-> NoView]

\* ------------------------------------------------------------- actions
Init ==
    /\ mem = <<>>
    /\ strs = <<>>
    /\ frames = {}
    /\ made = <<>>
    /\ call = NoCall
    /\ heap = <<>>
    /\ objects = NULL
    /\ gc = "none"

\* main:51-55: measure the literal, allocate the payload, copy the bytes.
main_buffer(bytes) ==
    /\ Allocated < MaxAllocs
    /\ LET len == arr_len(bytes)
           p == NewAddr
           payload == memcpy(calloc(PayloadSize(len)), bytes, len)
           buffer == [len |-> len, payload |-> p]
       IN /\ mem' = (p :> payload) @@ mem
          /\ frames' = frames \cup {[bytes |-> bytes, buffer |-> buffer]}
          /\ call' = [NoCall EXCEPT !.op = "main_buffer", !.ret = p]
    /\ UNCHANGED <<strs, made, objVars>>

\* main:57 / Str_make:32-37: allocate a Str and fill it.
call_Str_make(buffer) ==
    /\ Allocated < MaxAllocs
    /\ LET s == NewAddr
       IN /\ strs' = (s :> Str_make(buffer)) @@ strs
          /\ made' = Append(made, [arg |-> buffer, s |-> s])
          /\ call' = [NoCall EXCEPT !.op = "Str_make", !.ret = s]
    /\ UNCHANGED <<mem, frames, objVars>>

\* main:58 / Str_print:39-46 on a pointer s to the struct o.
call_Str_print(s, o) ==
    /\ LET r == Str_print(o)
       IN call' = [op |-> "Str_print", arg |-> s, kind |-> o.obj.kind, ret |-> r.ret,
                   reads |-> r.reads, printed |-> r.printed, view |-> r.view]
    /\ UNCHANGED <<mem, strs, frames, made, objVars>>

Next ==
    \/ \E bytes \in ByteArrays : main_buffer(bytes)
    \/ \E buffer \in BufValues : call_Str_make(buffer)
    \/ \E s \in DOMAIN strs : call_Str_print(s, strs[s])
    \/ \E k \in OtherKinds : call_Str_print(0, [obj |-> [kind |-> k]])

Spec == Init /\ [][Next]_vars

\* ------------------------------------------------ ObjectString (header)

\* The lowest address not in use (a freed address may be handed out again).
FreeAddr == CHOOSE a \in 1..(MaxObjs + 1) :
                /\ a \notin DOMAIN heap
                /\ \A b \in 1..(a - 1) : b \in DOMAIN heap

\* Exclusive or of the low n bits of a and b.
RECURSIVE XorBits(_, _, _)
XorBits(a, b, n) ==
    IF n = 0 THEN 0
    ELSE (((a % 2) + (b % 2)) % 2) + 2 * XorBits(a \div 2, b \div 2, n - 1)

\* uint32_t values are kept as two 16-bit halves.
\* FNV-1a offset basis 2166136261 = 0x811C9DC5.
FnvOffsetBasis == [hi |-> 33052, lo |-> 40389]

\* h ^= byte: only the low 8 bits change.
FnvXor(h, byte) ==
    [hi |-> h.hi, lo |-> ((h.lo \div 256) * 256) + XorBits(h.lo % 256, byte, 8)]

\* h *= 16777619 (0x01000193 = 2^24 + 403), modulo 2^32.
FnvMul(h) ==
    LET low == h.lo * 403
    IN [hi |-> ((h.hi * 403) + (low \div 65536) + ((h.lo % 256) * 256)) % 65536,
        lo |-> low % 65536]

\* The hash of the bytes from index i on, starting from h.
RECURSIVE FnvFrom(_, _, _)
FnvFrom(bytes, i, h) ==
    IF i > Len(bytes) THEN h
    ELSE FnvFrom(bytes, i + 1, FnvMul(FnvXor(h, bytes[i])))

\* Mutant: the pointer is hashed, not the bytes it points to.
hashString_pointer(bytes) == FnvFrom(<<FreeAddr>>, 1, FnvOffsetBasis)

hashString(bytes) == FnvFrom(bytes, 1, FnvOffsetBasis)

\* The ObjectString built for `bytes`: header (kind, next), length, hash and
\* the bytes followed by a NUL.
make_string(bytes, next) ==
    [header |-> [kind |-> ObjectKindString, next |-> next],
     length |-> Len(bytes),
     hash   |-> hashString(bytes),
     chars  |-> bytes \o <<0>>]

\* StringRef_chars: the chars field of the ObjectString at `string`.
StringRef_chars(string) == heap[string].chars

\* The chars of an ObjectString, without the NUL.
stringBytes(string) == SubSeq(StringRef_chars(string), 1, heap[string].length)

\* The heap after linking a new ObjectString for `bytes` in front of the chain.
allocateString(bytes) == (FreeAddr :> make_string(bytes, objects)) @@ heap

\* Mutant: the object is released while its predecessor still points to it.
free_linked(o) == [a \in DOMAIN heap \ {o} |-> heap[a]]

\* The heap after unlinking o from the chain and releasing it.
unlinkAndFree(o) ==
    [a \in DOMAIN heap \ {o} |->
        IF heap[a].header.next = o
        THEN [heap[a] EXCEPT !.header.next = heap[o].header.next]
        ELSE heap[a]]

\* The addresses met following next from p, at most n of them.
RECURSIVE Chain(_, _)
Chain(p, n) ==
    IF p = NULL \/ n = 0 THEN <<>>
    ELSE IF p \notin DOMAIN heap THEN <<p>>
    ELSE <<p>> \o Chain(heap[p].header.next, n - 1)

LiveChain == Chain(objects, Cardinality(DOMAIN heap) + 1)

Range(s) == {s[i] : i \in 1..Len(s)}

\* Construction of a string object from any bytes.
call_make_string(bytes) ==
    /\ Cardinality(DOMAIN heap) < MaxObjs
    /\ heap' = allocateString(bytes)
    /\ objects' = FreeAddr
    /\ gc' = "make_string"
    /\ UNCHANGED notesVars

\* The collector destroys an object: unlinked first, then released.
free_object(o) ==
    /\ heap' = unlinkAndFree(o)
    /\ objects' = IF objects = o THEN heap[o].header.next ELSE objects
    /\ gc' = "free_object"
    /\ UNCHANGED notesVars

NextObj ==
    \/ \E bytes \in SeqsUpTo(Byte, MaxLen) : call_make_string(bytes)
    \/ \E o \in DOMAIN heap : free_object(o)

SpecObj == Init /\ [][NextObj]_vars

\* =================================================================== claims

\* The entry of `made` for the Str at s.
MadeFrom(s) == {made[i].arg : i \in {j \in 1..Len(made) : made[j].s = s}}

\* C1 as stated: for every byte sequence b, zero bytes included, the string
\* object main's construction builds from b has length = number of bytes of b
\* and chars = b.
C1_RoundTripAnyBytes ==
    \A i \in 1..Len(made) : \A f \in frames :
        made[i].arg = f.buffer =>
            /\ strs[made[i].s].chars.len = Len(Content(f.bytes))
            /\ chars(strs[made[i].s]) = Content(f.bytes)

\* C1 amended: for every byte sequence b that contains no zero byte (the empty
\* one included), the string object built from b has length = number of bytes
\* of b and chars = b, byte for byte.
C1_RoundTrip ==
    \A i \in 1..Len(made) : \A f \in frames :
        (made[i].arg = f.buffer /\ ~HasZero(Content(f.bytes))) =>
            /\ strs[made[i].s].chars.len = Len(Content(f.bytes))
            /\ chars(strs[made[i].s]) = Content(f.bytes)

\* C1 witness: an object built by main's construction from the bytes 0x48 0x48.
C1_Witness ==
    \E i \in 1..Len(made) : \E f \in frames :
        /\ made[i].arg = f.buffer
        /\ Content(f.bytes) = <<72, 72>>
        /\ chars(strs[made[i].s]) = <<72, 72>>

\* C2 as stated: a cast to the object's own tag succeeds with a view equal to
\* what construction set, and a cast to any other tag fails with a
\* TypeMismatch error surfaced to the caller.
C2_DowncastRaises ==
    call.op = "Str_print" =>
        IF call.kind = ObjectKindString
        THEN MadeFrom(call.arg) = {call.view}
        ELSE call.view = NoView /\ call.ret = "TypeMismatch"

\* C2 amended: a cast to the object's own tag succeeds with a view equal to
\* what construction set; on any other tag no variant-specific view is taken
\* and Str_print returns void: nothing is surfaced to the caller.
C2_Downcast ==
    call.op = "Str_print" =>
        IF call.kind = ObjectKindString
        THEN MadeFrom(call.arg) = {call.view} /\ call.ret = "void"
        ELSE call.view = NoView /\ call.ret = "void"

\* C2 witness: Str_print was called on an object of tag 2, with a string object made.
C2_Witness ==
    /\ call.op = "Str_print"
    /\ call.kind = 2
    /\ call.view = NoView
    /\ call.ret = "void"
    /\ made # <<>>

\* C3: Str_print reads chars.payload only when the tag is String; on any other
\* tag it reads the tag alone, prints nothing and changes no state.
C3_TagCheckFirst ==
    [][call'.op = "Str_print" =>
        /\ ("chars.payload" \in call'.reads => call'.kind = ObjectKindString)
        /\ (call'.kind # ObjectKindString =>
               /\ call'.reads = {"obj.kind"}
               /\ call'.printed = <<>>
               /\ UNCHANGED <<mem, strs, frames, made>>)]_vars

\* C3 witness: Str_print was called on an object of tag 0 and read its tag only.
C3_Witness ==
    /\ call.op = "Str_print"
    /\ call.kind = 0
    /\ call.reads = {"obj.kind"}
    /\ call.printed = <<>>
    /\ strs # <<>>

\* A Str whose length is the strlen of its payload block, which ends with
\* one 0x00 not counted in the length.
WellFormed(s) ==
    /\ s.chars.payload \in DOMAIN mem
    /\ Len(mem[s.chars.payload]) = s.chars.len + 1
    /\ mem[s.chars.payload][s.chars.len + 1] = 0
    /\ arr_len(mem[s.chars.payload]) = s.chars.len

\* C4 as stated: every string object Str_make builds, from any buffer, has
\* length = payload size without the terminator, and a 0x00 at index length.
C4_LengthAnyBuffer == \A a \in DOMAIN strs : WellFormed(strs[a])

\* C4 amended: every string object Str_make builds from a buffer prepared as
\* main prepares it has length = payload size without the terminator, and a
\* 0x00 at index length.
C4_Length ==
    \A a \in DOMAIN strs : strs[a].chars \in MainBuffers => WellFormed(strs[a])

\* C4 witness: an object made from a main-prepared buffer of two bytes.
C4_Witness ==
    \E a \in DOMAIN strs :
        /\ strs[a].chars \in MainBuffers
        /\ strs[a].chars.len = 2
        /\ mem[strs[a].chars.payload] = <<72, 72, 0>>

C6_Immutable ==
    [][\A a \in DOMAIN strs :
          /\ a \in DOMAIN strs'
          /\ strs'[a].chars = strs[a].chars
          /\ strs[a].chars.payload \in DOMAIN mem'
          /\ mem'[strs[a].chars.payload] = mem[strs[a].chars.payload]]_vars

\* C6 witness: a payload was prepared after a string object was made.
C6_Witness ==
    /\ call.op = "main_buffer"
    /\ \E i \in 1..Len(made) : made[i].s < call.ret /\ made[i].s \in DOMAIN strs

\* C7: every string object has tag String (1, never 0) from the step that
\* constructs it, and no step reassigns the tag of an existing object.
C7_Tag ==
    [][\A a \in DOMAIN strs' :
          /\ strs'[a].obj.kind = ObjectKindString
          /\ strs'[a].obj.kind # 0
          /\ (a \in DOMAIN strs => strs'[a].obj.kind = strs[a].obj.kind)]_vars

\* C7 witness: the tag of a string object was read after two constructions.
C7_Witness ==
    /\ call.op = "Str_print"
    /\ call.arg \in DOMAIN strs
    /\ call.kind = ObjectKindString
    /\ Len(made) = 2

C9_Distinct ==
    \A i \in 1..Len(made) :
        /\ made[i].s \in DOMAIN strs
        /\ made[i].s \notin DOMAIN mem
        /\ \A j \in 1..Len(made) : i # j => made[i].s # made[j].s

\* C9 witness: two Str_make calls on the same buffer returned different pointers.
C9_Witness ==
    \E i \in 1..Len(made) : \E j \in 1..Len(made) :
        /\ i # j
        /\ made[i].arg = made[j].arg
        /\ made[i].s # made[j].s

\* C10: no two string objects refer to the same payload block, and once
\* Str_make has returned, the caller's buffer no longer refers to the block
\* of the object made from it.
C10_SingularOwnership ==
    /\ \A i \in 1..Len(made) : \A f \in frames :
           made[i].arg = f.buffer =>
               f.buffer.payload # strs[made[i].s].chars.payload
    /\ \A a \in DOMAIN strs : \A b \in DOMAIN strs :
           a # b => strs[a].chars.payload # strs[b].chars.payload

====
